---- MODULE Spec2Model ----
(***************************************************************************)
(* smartctl_exporter (main.go): device discovery (scanDevices), the        *)
(* explicit-device restriction (filterDevices), start-up (main), the       *)
(* background rescan loop (RescanForDevices) and the scrape handler        *)
(* (Collect), which share the collector's Devices slice under one mutex.   *)
(*                                                                         *)
(* Strings are sequences of one-character strings, so that TrimSpace,      *)
(* strings.Contains and pattern matching are computed, not assumed.        *)
(***************************************************************************)
EXTENDS Integers, Sequences, FiniteSets, TLC

VARIABLES
    smartctlDeviceExclude,   \* flag smartctl.device-exclude (a pattern, or NoPattern)
    smartctlDeviceInclude,   \* flag smartctl.device-include (a pattern, or NoPattern)
    smartctlDevices,         \* flag smartctl.device (repeatable): sequence of strings
    smartctlRescanInterval,  \* flag smartctl.rescan, in milliseconds
    mainPc,                  \* position of main
    baseDevices,             \* start-up scanDevices: the reader's base listing
    raidDevices,             \* start-up scanDevices: the reader's "-d sat" listing
    discovered,              \* main: devices as returned by scanDevices (line 202)
    devices,                 \* main: devices after the optional filterDevices (line 206)
    Devices,                 \* collector.Devices, the inventory
    mutex,                   \* collector.mutex: its holder (Free, ByRescan or ByPass(c))
    rescanPc,                \* position of the RescanForDevices goroutine
    rescanDevices,           \* RescanForDevices: local `devices`
    rescanOld,               \* the inventory the assignment of line 88 overwrote (history)
    scans,                   \* number of scanDevices calls so far (saturates at MaxScans)
    cPc,                     \* per scrape goroutine: position inside Collect
    cRange,                  \* per pass: the slice the range statement iterates
    cIdx,                    \* per pass: number of devices already visited
    cReads,                  \* per pass: outcome json.Exists() of each readData so far
    cEmitted,                \* per pass: devices whose metrics were emitted, in order
    cCount,                  \* per pass: value sent as metricDeviceCount (-1: not yet)
    cHeld,                   \* per pass: the inventory when the pass took the mutex
    cLog,                    \* per pass: what the pass did so far, in order (history)
    cInScan                  \* per pass: entered while a scanDevices call of the rescan
                             \* loop was running that has not returned since (history)

vars == << smartctlDeviceExclude, smartctlDeviceInclude, smartctlDevices,
           smartctlRescanInterval, mainPc, baseDevices, raidDevices, discovered,
           devices, Devices, mutex, rescanPc, rescanDevices, rescanOld, scans,
           cPc, cRange, cIdx, cReads, cEmitted, cCount, cHeld, cLog, cInScan >>

(***************************************************************************)
(* Bounds of the model.                                                    *)
(***************************************************************************)
MaxList == 2
MaxScans == 2
NumScrapers == 2

(***************************************************************************)
(* Strings.                                                                *)
(***************************************************************************)
sda == <<"s", "d", "a">>
sdb == <<"s", "d", "b">>
sdc == <<"s", "d", "c">>
sd == <<"s", "d">>
loop == <<"l", "o", "o", "p">>
loop0 == <<"l", "o", "o", "p", "0">>
loop1 == <<"l", "o", "o", "p", "1">>
sdaPadded == <<" ", "s", "d", "a", " ">>
bus0 == <<"b", "u", "s", "0">>
vol0 == <<"v", "o", "l", "0">>
vol1 == <<"v", "o", "l", "1">>
devSda == <<"/", "d", "e", "v", "/", "s", "d", "a">>
devSdb == <<"/", "d", "e", "v", "/", "s", "d", "b">>
devSdc == <<"/", "d", "e", "v", "/", "s", "d", "c">>
devLoop0 == <<"/", "d", "e", "v", "/", "l", "o", "o", "p", "0">>
devLoop1 == <<"/", "d", "e", "v", "/", "l", "o", "o", "p", "1">>
devBus0 == <<"/", "d", "e", "v", "/", "b", "u", "s", "/", "0">>

CcissType == "cciss"
MegaraidType == "megaraid"

IsSpace(c) == c \in {" ", "\t", "\n", "\r"}

RECURSIVE TrimLeft(_)
TrimLeft(s) ==
    IF s # <<>> /\ IsSpace(Head(s)) THEN TrimLeft(Tail(s)) ELSE s

RECURSIVE TrimRight(_)
TrimRight(s) ==
    IF s # <<>> /\ IsSpace(s[Len(s)]) THEN TrimRight(SubSeq(s, 1, Len(s) - 1)) ELSE s

\* strings.TrimSpace
TrimSpace(s) == TrimRight(TrimLeft(s))

\* strings.HasPrefix, used for a pattern anchored with ^
HasPrefix(s, p) == Len(p) <= Len(s) /\ SubSeq(s, 1, Len(p)) = p

\* strings.Contains(s, substr)
Contains(s, substr) ==
    \E i \in 0..(Len(s) - Len(substr)) : SubSeq(s, i + 1, i + Len(substr)) = substr

(***************************************************************************)
(* Device Filter (newDeviceFilter / ignored).  A pattern is NoPattern (the *)
(* flag's default "") or a literal with an optional ^ anchor.              *)
(***************************************************************************)
NoPattern == [set |-> FALSE, anchored |-> FALSE, lit |-> <<>>]
Pattern(anchored, lit) == [set |-> TRUE, anchored |-> anchored, lit |-> lit]

MatchString(p, name) ==
    IF p.anchored THEN HasPrefix(name, p.lit) ELSE Contains(name, p.lit)

newDeviceFilter(exclude, include) == [exclude |-> exclude, include |-> include]

ignored(filter, name) ==
    \/ filter.exclude.set /\ MatchString(filter.exclude, name)
    \/ filter.include.set /\ ~MatchString(filter.include, name)

(***************************************************************************)
(* Device and the reader's listing entries.                                *)
(***************************************************************************)
Device(name, infoName, type) == [Name |-> name, Info_Name |-> infoName, Type |-> type]

\* One element of the reader's "devices" array.  units is what the formatting
\* collaborator reports for a RAID controller entry (its logical units).
Entry(name, infoName, type, units) ==
    [name |-> name, info_name |-> infoName, type |-> type, units |-> units]

\* getDiskName(name, info_name): the canonical name is the reported identity.
getDiskName(name, infoName) == infoName

RECURSIVE UnitDevices(_, _)
UnitDevices(d, units) ==
    IF units = <<>> THEN <<>>
    ELSE <<Device(d.name, Head(units), d.type)>> \o UnitDevices(d, Tail(units))

\* formatDevices(logger, d): a RAID controller entry expands into its logical
\* units, any other entry into the one device it names.
formatDevices(d) ==
    IF d.type \in {CcissType, MegaraidType}
    THEN UnitDevices(d, d.units)
    ELSE <<Device(d.name, getDiskName(TrimSpace(d.name), TrimSpace(d.info_name)), d.type)>>

(***************************************************************************)
(* scanDevices (lines 123-169), loop by loop.                              *)
(***************************************************************************)
\* lines 132-147: every base entry is recorded in isExists and appended.
RECURSIVE BaseLoop(_, _, _)
BaseLoop(ds, isExists, acc) ==
    IF ds = <<>> THEN [isExists |-> isExists, scanDevices |-> acc]
    ELSE LET d == Head(ds)
             deviceName == getDiskName(TrimSpace(d.name), TrimSpace(d.info_name))
             device == Device(d.name, deviceName, d.type)
         IN  BaseLoop(Tail(ds), isExists \cup {TrimSpace(d.info_name)}, Append(acc, device))

\* variant: the expansion is put in front of what was gathered, not behind it
RECURSIVE RaidLoopPrepend(_, _, _)
RaidLoopPrepend(ds, isExists, acc) ==
    IF ds = <<>> THEN acc
    ELSE LET d == Head(ds)
         IN  IF TrimSpace(d.info_name) \in isExists
             THEN RaidLoopPrepend(Tail(ds), isExists, acc)
             ELSE RaidLoopPrepend(Tail(ds), isExists, formatDevices(d) \o acc)

\* lines 149-157: a raid entry whose info_name the base pass recorded is skipped,
\* any other is expanded and appended.
RECURSIVE RaidLoop(_, _, _)
RaidLoop(ds, isExists, acc) ==
    IF ds = <<>> THEN acc
    ELSE LET d == Head(ds)
         IN  IF TrimSpace(d.info_name) \in isExists
             THEN RaidLoop(Tail(ds), isExists, acc)
             ELSE RaidLoop(Tail(ds), isExists, acc \o formatDevices(d))

\* variant: the two branches of the filter test exchanged
RECURSIVE FilterLoopInverted(_, _, _)
FilterLoopInverted(ds, filter, acc) ==
    IF ds = <<>> THEN acc
    ELSE IF ignored(filter, Head(ds).Info_Name)
         THEN FilterLoopInverted(Tail(ds), filter, Append(acc, Head(ds)))
         ELSE FilterLoopInverted(Tail(ds), filter, acc)

\* lines 160-167: keep the candidates the filter does not ignore.
RECURSIVE FilterLoop(_, _, _)
FilterLoop(ds, filter, acc) ==
    IF ds = <<>> THEN acc
    ELSE IF ignored(filter, Head(ds).Info_Name)
         THEN FilterLoop(Tail(ds), filter, acc)
         ELSE FilterLoop(Tail(ds), filter, Append(acc, Head(ds)))

\* the local slice scanDevices after the two loops (line 158)
Candidates(base, raid) ==
    LET b == BaseLoop(base, {}, <<>>)
    IN  RaidLoop(raid, b.isExists, b.scanDevices)

scanDevices(base, raid, exclude, include) ==
    FilterLoop(Candidates(base, raid), newDeviceFilter(exclude, include), <<>>)

(***************************************************************************)
(* filterDevices (lines 171-183).                                          *)
(***************************************************************************)
\* variant: the arguments of strings.Contains exchanged
RECURSIVE AnyFilterReversed(_, _)
AnyFilterReversed(infoName, filters) ==
    IF filters = <<>> THEN FALSE
    ELSE IF Contains(Head(filters), infoName) THEN TRUE
         ELSE AnyFilterReversed(infoName, Tail(filters))

\* lines 174-180: does some filter occur in the name (first hit breaks)
RECURSIVE AnyFilter(_, _)
AnyFilter(infoName, filters) ==
    IF filters = <<>> THEN FALSE
    ELSE IF Contains(infoName, Head(filters)) THEN TRUE
         ELSE AnyFilter(infoName, Tail(filters))

\* variant: no break, a device is appended once for every filter it contains
RECURSIVE filterDevicesNoBreak(_, _)
filterDevicesNoBreak(ds, filters) ==
    IF ds = <<>> THEN <<>>
    ELSE LET d == Head(ds)
             hits == SelectSeq(filters, LAMBDA f : Contains(d.Info_Name, f))
         IN  [n \in 1..Len(hits) |-> d] \o filterDevicesNoBreak(Tail(ds), filters)

\* lines 171-183
RECURSIVE filterDevices(_, _)
filterDevices(ds, filters) ==
    IF ds = <<>> THEN <<>>
    ELSE IF AnyFilter(Head(ds).Info_Name, filters)
         THEN <<Head(ds)>> \o filterDevices(Tail(ds), filters)
         ELSE filterDevices(Tail(ds), filters)

(***************************************************************************)
(* Flags and the external reader.                                          *)
(***************************************************************************)
Second == 1000

Scrapers == 1..NumScrapers

SeqsUpTo(S, n) == UNION {[1..k -> S] : k \in 0..n}

Prefixes(s) == {SubSeq(s, 1, k) : k \in 0..Len(s)}

\* what readSMARTctlDevices(logger) can list
BaseEntries ==
    { Entry(devSda, sda, "scsi", <<>>),
      Entry(devSda, sdaPadded, "scsi", <<>>),
      Entry(devSdb, sdb, "scsi", <<>>),
      Entry(devLoop0, loop0, "scsi", <<>>) }

\* what readSMARTctlDevices(logger, "-d", "sat") can list
RaidEntries ==
    { Entry(devSda, sda, "sat", <<>>),
      Entry(devSdc, sdc, "sat", <<>>),
      Entry(devLoop1, loop1, "sat", <<>>),
      Entry(devBus0, bus0, MegaraidType, <<vol0, vol1>>) }

BaseListings == SeqsUpTo(BaseEntries, MaxList)
RaidListings == SeqsUpTo(RaidEntries, MaxList)

\* one host whose reader may fail and list nothing or only a part
HostBase == <<Entry(devSda, sda, "scsi", <<>>), Entry(devSdb, sdb, "scsi", <<>>)>>
HostRaid == <<Entry(devSda, sda, "sat", <<>>), Entry(devSdc, sdc, "sat", <<>>)>>
HostBaseListings == Prefixes(HostBase)
HostRaidListings == Prefixes(HostRaid)

\* smartctl.device-exclude / smartctl.device-include: at most one is set
FilterFlags ==
    { <<NoPattern, NoPattern>>,
      <<Pattern(TRUE, loop), NoPattern>>,
      <<Pattern(FALSE, sdb), NoPattern>>,
      <<NoPattern, Pattern(TRUE, sd)>> }

DeviceFlags == { <<>>, <<sda>>, <<sd>>, <<devSda>>, <<sdc, sda>>, <<sd, sda>> }

\* sync.Mutex: who holds it
Free == <<>>
ByRescan == <<"rescan">>
ByPass(c) == <<"pass", c>>

NoPass == [c \in Scrapers |-> <<>>]

InitWith(filterFlags, deviceFlags, intervals) ==
    /\ \E f \in filterFlags :
          /\ smartctlDeviceExclude = f[1]
          /\ smartctlDeviceInclude = f[2]
    /\ smartctlDevices \in deviceFlags
    /\ smartctlRescanInterval \in intervals
    /\ mainPc = "scan"
    /\ baseDevices = <<>>
    /\ raidDevices = <<>>
    /\ discovered = <<>>
    /\ devices = <<>>
    /\ Devices = <<>>
    /\ mutex = Free
    /\ rescanPc = "off"
    /\ rescanDevices = <<>>
    /\ rescanOld = <<>>
    /\ scans = 0
    /\ cPc = [c \in Scrapers |-> "idle"]
    /\ cRange = NoPass
    /\ cIdx = [c \in Scrapers |-> 0]
    /\ cReads = NoPass
    /\ cEmitted = NoPass
    /\ cCount = [c \in Scrapers |-> -1]
    /\ cHeld = NoPass
    /\ cLog = NoPass
    /\ cInScan = [c \in Scrapers |-> FALSE]

flagVars == << smartctlDeviceExclude, smartctlDeviceInclude, smartctlDevices,
               smartctlRescanInterval >>
mainVars == << mainPc, baseDevices, raidDevices, discovered, devices >>
rescanVars == << rescanPc, rescanDevices, rescanOld >>
passVars == << cPc, cRange, cIdx, cReads, cEmitted, cCount, cHeld, cLog, cInScan >>

CountScan == IF scans < MaxScans THEN scans + 1 ELSE scans

(***************************************************************************)
(* main (lines 185-256).                                                   *)
(***************************************************************************)
\* line 202: devices = scanDevices(logger), the reader listing from the given sets
MainScanOver(bases, raids) ==
    /\ mainPc = "scan"
    /\ \E b \in bases, r \in raids :
          /\ baseDevices' = b
          /\ raidDevices' = r
          /\ discovered' = scanDevices(b, r, smartctlDeviceExclude, smartctlDeviceInclude)
    /\ devices' = discovered'
    /\ scans' = CountScan
    /\ mainPc' = "filter"
    /\ UNCHANGED << flagVars, Devices, mutex, rescanVars, passVars >>

MainScan == MainScanOver(HostBaseListings, HostRaidListings)

StartupScan == MainScanOver(BaseListings, RaidListings)

\* lines 204-208: the explicit device list narrows the discovered devices
MainFilter ==
    /\ mainPc = "filter"
    /\ devices' = IF Len(smartctlDevices) > 0
                  THEN filterDevices(devices, smartctlDevices)
                  ELSE devices
    /\ mainPc' = "new"
    /\ UNCHANGED << flagVars, baseDevices, raidDevices, discovered, Devices, mutex,
                    rescanVars, scans, passVars >>

\* lines 210-213: collector := SMARTctlManagerCollector{Devices: devices, ...}
MainNewCollector ==
    /\ mainPc = "new"
    /\ Devices' = devices
    /\ mainPc' = "rescan"
    /\ UNCHANGED << flagVars, baseDevices, raidDevices, discovered, devices, mutex,
                    rescanVars, scans, passVars >>

\* variant: the interval compared with 1, not with 1*time.Second
StartsRescanNoUnit == smartctlRescanInterval >= 1

\* line 215: the condition under which the rescan goroutine is started
StartsRescan == smartctlRescanInterval >= 1 * Second

\* lines 215-219, then the registry and the HTTP server (lines 221-255)
MainStartRescan ==
    /\ mainPc = "rescan"
    /\ rescanPc' = IF StartsRescan THEN "sleep" ELSE rescanPc
    /\ mainPc' = "serve"
    /\ UNCHANGED << flagVars, baseDevices, raidDevices, discovered, devices, Devices,
                    mutex, rescanDevices, rescanOld, scans, passVars >>

(***************************************************************************)
(* RescanForDevices (lines 82-91), one goroutine.                          *)
(***************************************************************************)
\* variant: the mutex is taken before scanDevices is called
RescanSleepLocks ==
    /\ rescanPc = "sleep"
    /\ mutex = Free
    /\ mutex' = ByRescan
    /\ rescanPc' = "scan"
    /\ UNCHANGED << flagVars, mainVars, Devices, rescanDevices, rescanOld, scans,
                    passVars >>

\* lines 84-86: time.Sleep(*smartctlRescanInterval) returns and scanDevices is called
RescanSleep ==
    /\ rescanPc = "sleep"
    /\ rescanPc' = "scan"
    /\ UNCHANGED << flagVars, mainVars, Devices, mutex, rescanDevices, rescanOld, scans,
                    passVars >>

\* line 86: devices := scanDevices(i.logger) returns, outside the mutex
RescanScan ==
    /\ rescanPc = "scan"
    /\ \E b \in HostBaseListings, r \in HostRaidListings :
          rescanDevices' = scanDevices(b, r, smartctlDeviceExclude, smartctlDeviceInclude)
    /\ scans' = CountScan
    /\ rescanPc' = "lock"
    /\ cInScan' = [c \in Scrapers |-> FALSE]
    /\ UNCHANGED << flagVars, mainVars, Devices, mutex, rescanOld,
                    cPc, cRange, cIdx, cReads, cEmitted, cCount, cHeld, cLog >>

\* variant: the rescan loop assigns without taking the mutex
RescanLockNoWait ==
    /\ rescanPc = "lock"
    /\ rescanPc' = "assign"
    /\ UNCHANGED << flagVars, mainVars, Devices, mutex, rescanDevices, rescanOld, scans,
                    passVars >>

\* line 87: i.mutex.Lock()
RescanLock ==
    /\ rescanPc = "lock"
    /\ mutex = Free
    /\ mutex' = ByRescan
    /\ rescanPc' = "assign"
    /\ UNCHANGED << flagVars, mainVars, Devices, rescanDevices, rescanOld, scans, passVars >>

\* variant: an empty scan result is not adopted, the previous inventory is kept
RescanAssignKeepsOnEmpty ==
    /\ rescanPc = "assign"
    /\ Devices' = IF rescanDevices = <<>> THEN Devices ELSE rescanDevices
    /\ rescanOld' = Devices
    /\ rescanPc' = "unlock"
    /\ UNCHANGED << flagVars, mainVars, mutex, rescanDevices, scans, passVars >>

\* variant: the devices found are added to the inventory, element by element
RescanAssignAppends ==
    /\ rescanPc = "assign"
    /\ Devices' = Devices \o SelectSeq(rescanDevices, LAMBDA d : d \notin {Devices[i] : i \in 1..Len(Devices)})
    /\ rescanOld' = Devices
    /\ rescanPc' = "unlock"
    /\ UNCHANGED << flagVars, mainVars, mutex, rescanDevices, scans, passVars >>

\* line 88: i.Devices = devices
RescanAssign ==
    /\ rescanPc = "assign"
    /\ Devices' = rescanDevices
    /\ rescanOld' = Devices
    /\ rescanPc' = "unlock"
    /\ UNCHANGED << flagVars, mainVars, mutex, rescanDevices, scans, passVars >>

\* line 89: i.mutex.Unlock(); the local is dead until the next iteration assigns it
RescanUnlock ==
    /\ rescanPc = "unlock"
    /\ mutex' = Free
    /\ rescanDevices' = <<>>
    /\ rescanOld' = <<>>
    /\ rescanPc' = "sleep"
    /\ UNCHANGED << flagVars, mainVars, Devices, scans, passVars >>

(***************************************************************************)
(* Collect (lines 62-80), one call per scrape; scrapes arrive concurrently *)
(* once main serves.                                                       *)
(***************************************************************************)
\* line 63: a scrape arrives and Collect is entered
CollectStart(c) ==
    /\ mainPc = "serve"
    /\ cPc[c] = "idle"
    /\ cPc' = [cPc EXCEPT ![c] = "lock"]
    /\ cInScan' = [cInScan EXCEPT ![c] = (rescanPc = "scan")]
    /\ UNCHANGED << flagVars, mainVars, Devices, mutex, rescanVars, scans,
                    cRange, cIdx, cReads, cEmitted, cCount, cHeld, cLog >>

\* variant: the pass enters its section without waiting for the mutex
CollectLockNoWait(c) ==
    /\ cPc[c] = "lock"
    /\ mutex' = ByPass(c)
    /\ cHeld' = [cHeld EXCEPT ![c] = Devices]
    /\ cPc' = [cPc EXCEPT ![c] = "range"]
    /\ UNCHANGED << flagVars, mainVars, Devices, rescanVars, scans,
                    cRange, cIdx, cReads, cEmitted, cCount, cLog, cInScan >>

\* line 64: i.mutex.Lock()
CollectLock(c) ==
    /\ cPc[c] = "lock"
    /\ mutex = Free
    /\ mutex' = ByPass(c)
    /\ cHeld' = [cHeld EXCEPT ![c] = Devices]
    /\ cPc' = [cPc EXCEPT ![c] = "range"]
    /\ UNCHANGED << flagVars, mainVars, Devices, rescanVars, scans,
                    cRange, cIdx, cReads, cEmitted, cCount, cLog, cInScan >>

\* variant: the lock is given up once the slice has been read, before the loop
CollectRangeUnlocks(c) ==
    /\ cPc[c] = "range"
    /\ cRange' = [cRange EXCEPT ![c] = Devices]
    /\ cIdx' = [cIdx EXCEPT ![c] = 0]
    /\ cPc' = [cPc EXCEPT ![c] = "loop"]
    /\ mutex' = Free
    /\ UNCHANGED << flagVars, mainVars, Devices, rescanVars, scans,
                    cReads, cEmitted, cCount, cHeld, cLog, cInScan >>

\* line 65: the range expression i.Devices is evaluated once
CollectRange(c) ==
    /\ cPc[c] = "range"
    /\ cRange' = [cRange EXCEPT ![c] = Devices]
    /\ cIdx' = [cIdx EXCEPT ![c] = 0]
    /\ cPc' = [cPc EXCEPT ![c] = "loop"]
    /\ UNCHANGED << flagVars, mainVars, Devices, mutex, rescanVars, scans,
                    cReads, cEmitted, cCount, cHeld, cLog, cInScan >>

\* variant: metrics emitted without the json.Exists() test
EmitForAlways(emitted, device, exists) == Append(emitted, device)

\* lines 66-71: what one iteration emits for `device` when readData's result
\* does (exists) or does not exist
EmitFor(emitted, device, exists) ==
    IF exists THEN Append(emitted, device) ELSE emitted

\* variant: the slice is walked from its end
NextDeviceReversed(c) == cRange[c][Len(cRange[c]) - cIdx[c]]

\* line 65: the element the range statement hands to the next iteration
NextDevice(c) == cRange[c][cIdx[c] + 1]

\* what is on record of a pass: a read of a device, its metrics, the count metric
Event(ev, device, value) == [ev |-> ev, device |-> device, value |-> value]

LogRead(log, device, exists) ==
    IF exists
    THEN log \o <<Event("read", device, 0), Event("emit", device, 0)>>
    ELSE Append(log, Event("read", device, 0))

\* variant: only the devices whose metrics were emitted are counted
CountValueEmitted(c) == Len(cEmitted[c])

\* line 76: the value of the device count metric pass c sends, len(i.Devices)
CountValue(c) == Len(Devices)

\* variant: a device whose read does not exist is dropped from the inventory
CollectReadPrunes(c) ==
    /\ cPc[c] = "loop"
    /\ cIdx[c] < Len(cRange[c])
    /\ \E exists \in BOOLEAN :
          /\ cReads' = [cReads EXCEPT ![c] = Append(@, exists)]
          /\ cEmitted' = [cEmitted EXCEPT ![c] = EmitFor(@, NextDevice(c), exists)]
          /\ cLog' = [cLog EXCEPT ![c] = LogRead(@, NextDevice(c), exists)]
          /\ Devices' = IF exists THEN Devices
                        ELSE SelectSeq(Devices, LAMBDA d : d # NextDevice(c))
    /\ cIdx' = [cIdx EXCEPT ![c] = @ + 1]
    /\ UNCHANGED << flagVars, mainVars, mutex, rescanVars, scans,
                    cPc, cRange, cCount, cHeld, cInScan >>

\* lines 65-72: one iteration of the loop
CollectRead(c) ==
    /\ cPc[c] = "loop"
    /\ cIdx[c] < Len(cRange[c])
    /\ \E exists \in BOOLEAN :
          /\ cReads' = [cReads EXCEPT ![c] = Append(@, exists)]
          /\ cEmitted' = [cEmitted EXCEPT ![c] = EmitFor(@, NextDevice(c), exists)]
          /\ cLog' = [cLog EXCEPT ![c] = LogRead(@, NextDevice(c), exists)]
    /\ cIdx' = [cIdx EXCEPT ![c] = @ + 1]
    /\ UNCHANGED << flagVars, mainVars, Devices, mutex, rescanVars, scans,
                    cPc, cRange, cCount, cHeld, cInScan >>

\* variant: the mutex is given up while the read is awaited
CollectHangReleases(c) ==
    /\ cPc[c] = "loop"
    /\ cIdx[c] < Len(cRange[c])
    /\ cPc' = [cPc EXCEPT ![c] = "hung"]
    /\ mutex' = Free
    /\ UNCHANGED << flagVars, mainVars, Devices, rescanVars, scans,
                    cRange, cIdx, cReads, cEmitted, cCount, cHeld, cLog, cInScan >>

\* line 66: readData is called for the next device and never returns
CollectHang(c) ==
    /\ cPc[c] = "loop"
    /\ cIdx[c] < Len(cRange[c])
    /\ cPc' = [cPc EXCEPT ![c] = "hung"]
    /\ UNCHANGED << flagVars, mainVars, Devices, mutex, rescanVars, scans,
                    cRange, cIdx, cReads, cEmitted, cCount, cHeld, cLog, cInScan >>

\* lines 73-78: the loop is over; metricDeviceCount = len(i.Devices)
CollectCount(c) ==
    /\ cPc[c] = "loop"
    /\ cIdx[c] = Len(cRange[c])
    /\ cCount' = [cCount EXCEPT ![c] = CountValue(c)]
    /\ cLog' = [cLog EXCEPT ![c] = Append(@, Event("count", Device(<<>>, <<>>, ""), CountValue(c)))]
    /\ cPc' = [cPc EXCEPT ![c] = "unlock"]
    /\ UNCHANGED << flagVars, mainVars, Devices, mutex, rescanVars, scans,
                    cRange, cIdx, cReads, cEmitted, cHeld, cInScan >>

\* lines 79-80: i.mutex.Unlock() and return; the pass's locals are gone
\* variant: the pass returns without releasing the mutex
CollectUnlockKeeps(c) ==
    /\ cPc[c] = "unlock"
    /\ cPc' = [cPc EXCEPT ![c] = "idle"]
    /\ cRange' = [cRange EXCEPT ![c] = <<>>]
    /\ cIdx' = [cIdx EXCEPT ![c] = 0]
    /\ cReads' = [cReads EXCEPT ![c] = <<>>]
    /\ cEmitted' = [cEmitted EXCEPT ![c] = <<>>]
    /\ cCount' = [cCount EXCEPT ![c] = -1]
    /\ cHeld' = [cHeld EXCEPT ![c] = <<>>]
    /\ cLog' = [cLog EXCEPT ![c] = <<>>]
    /\ cInScan' = [cInScan EXCEPT ![c] = FALSE]
    /\ UNCHANGED << flagVars, mainVars, Devices, mutex, rescanVars, scans >>

CollectUnlock(c) ==
    /\ cPc[c] = "unlock"
    /\ mutex' = Free
    /\ cPc' = [cPc EXCEPT ![c] = "idle"]
    /\ cRange' = [cRange EXCEPT ![c] = <<>>]
    /\ cIdx' = [cIdx EXCEPT ![c] = 0]
    /\ cReads' = [cReads EXCEPT ![c] = <<>>]
    /\ cEmitted' = [cEmitted EXCEPT ![c] = <<>>]
    /\ cCount' = [cCount EXCEPT ![c] = -1]
    /\ cHeld' = [cHeld EXCEPT ![c] = <<>>]
    /\ cLog' = [cLog EXCEPT ![c] = <<>>]
    /\ cInScan' = [cInScan EXCEPT ![c] = FALSE]
    /\ UNCHANGED << flagVars, mainVars, Devices, rescanVars, scans >>

(***************************************************************************)
(* Specifications.                                                         *)
(***************************************************************************)
\* the running exporter on one host
Init == InitWith({<<NoPattern, NoPattern>>}, {<<>>, <<sda>>}, {0, 999, 1000})

Next ==
    \/ MainScan
    \/ MainFilter
    \/ MainNewCollector
    \/ MainStartRescan
    \/ RescanSleep
    \/ RescanScan
    \/ RescanLock
    \/ RescanAssign
    \/ RescanUnlock
    \/ \E c \in Scrapers : CollectStart(c)
    \/ \E c \in Scrapers : CollectLock(c)
    \/ \E c \in Scrapers : CollectRange(c)
    \/ \E c \in Scrapers : CollectRead(c)
    \/ \E c \in Scrapers : CollectHang(c)
    \/ \E c \in Scrapers : CollectCount(c)
    \/ \E c \in Scrapers : CollectUnlock(c)

Spec == Init /\ [][Next]_vars

\* start-up alone, over every flag setting and every listing of the reader
InitScan == InitWith(FilterFlags, DeviceFlags, {1000})

NextScan ==
    \/ StartupScan
    \/ MainFilter
    \/ MainNewCollector

SpecScan == InitScan /\ [][NextScan]_vars

\* the program when every readData call returns: Collect never stays in line 66
InitLive == InitWith({<<NoPattern, NoPattern>>}, {<<>>}, {1000})

NextLive ==
    \/ MainScan
    \/ MainFilter
    \/ MainNewCollector
    \/ MainStartRescan
    \/ RescanSleep
    \/ RescanScan
    \/ RescanLock
    \/ RescanAssign
    \/ RescanUnlock
    \/ \E c \in Scrapers : CollectStart(c)
    \/ \E c \in Scrapers : CollectLock(c)
    \/ \E c \in Scrapers : CollectRange(c)
    \/ \E c \in Scrapers : CollectRead(c)
    \/ \E c \in Scrapers : CollectCount(c)
    \/ \E c \in Scrapers : CollectUnlock(c)

\* A goroutine that can run does run, the sleep of line 84 ends, scanDevices
\* and readData return (weak fairness).  A goroutine blocked in Lock gets
\* the mutex if it is released again and again: sync.Mutex hands the mutex
\* to the longest waiter once that waiter has waited 1ms (strong fairness).
\* Nothing obliges Prometheus to scrape: CollectStart has no fairness.
Fairness ==
    /\ WF_vars(RescanSleep)
    /\ WF_vars(RescanScan)
    /\ SF_vars(RescanLock)
    /\ WF_vars(RescanAssign)
    /\ WF_vars(RescanUnlock)
    /\ \A c \in Scrapers :
          /\ SF_vars(CollectLock(c))
          /\ WF_vars(CollectRange(c))
          /\ WF_vars(CollectRead(c))
          /\ WF_vars(CollectCount(c))
          /\ WF_vars(CollectUnlock(c))

SpecLive == InitLive /\ [][NextLive]_vars /\ Fairness

(***************************************************************************)
(* Vocabulary of the properties.                                           *)
(***************************************************************************)
NamesOf(ds) == [i \in 1..Len(ds) |-> ds[i].Info_Name]

Range(s) == {s[i] : i \in 1..Len(s)}

\* the pass holds the mutex: between Lock (line 64) and Unlock (line 79)
InSection(c) == cPc[c] \in {"range", "loop", "hung", "unlock"}

\* the loop of the pass has begun
Iterating(c) == cPc[c] \in {"loop", "hung", "unlock"}

\* the devices the pass has polled so far
Polled(c) == SubSeq(cRange[c], 1, cIdx[c])

\* the filter the flags configure
TheFilter == newDeviceFilter(smartctlDeviceExclude, smartctlDeviceInclude)

Kept(ds) == SelectSeq(ds, LAMBDA d : ~ignored(TheFilter, d.Info_Name))

Scanned == mainPc # "scan"

\* some entry of the explicit device list occurs in the name
Allowed(infoName) ==
    \E j \in 1..Len(smartctlDevices) : Contains(infoName, smartctlDevices[j])

\* the rescan loop holds the mutex: between Lock (line 87) and Unlock (line 89)
Replacing == rescanPc \in {"assign", "unlock"}

\* the names the base pass and the raid pass of the start-up scan list
BaseNames == {TrimSpace(baseDevices[i].info_name) : i \in 1..Len(baseDevices)}

RaidNames == {TrimSpace(raidDevices[i].info_name) : i \in 1..Len(raidDevices)}

\* the device each base entry stands for, in listing order
BaseBuilt ==
    [i \in 1..Len(baseDevices) |->
        Device(baseDevices[i].name,
               getDiskName(TrimSpace(baseDevices[i].name), TrimSpace(baseDevices[i].info_name)),
               baseDevices[i].type)]

\* the raid entries whose name the base pass did not list, in listing order
RaidOnly == SelectSeq(raidDevices, LAMBDA d : TrimSpace(d.info_name) \notin BaseNames)

RECURSIVE Expanded(_)
Expanded(ds) == IF ds = <<>> THEN <<>> ELSE formatDevices(Head(ds)) \o Expanded(Tail(ds))

\* the positions visited so far whose read exists, in order
ReadOk(c) == SelectSeq([k \in 1..cIdx[c] |-> k], LAMBDA k : cReads[c][k])

(***************************************************************************)
(* C1  Snapshot consistency.  Whatever the rescan loop does meanwhile, the *)
(* inventory is not replaced while a Collect pass holds the mutex, the     *)
(* devices the pass has polled are a prefix of the inventory held when it  *)
(* took the mutex, and once its loop is over it has polled exactly that    *)
(* inventory and counted its length: one inventory value, never a mix of   *)
(* two.                                                                    *)
(***************************************************************************)
SnapshotConsistency ==
    \A c \in Scrapers :
        /\ InSection(c) => Devices = cHeld[c]
        /\ Iterating(c) =>
              /\ cIdx[c] <= Len(cHeld[c])
              /\ Polled(c) = SubSeq(cHeld[c], 1, cIdx[c])
        /\ cPc[c] = "unlock" =>
              /\ Polled(c) = cHeld[c]
              /\ cCount[c] = Len(cHeld[c])

\* a pass has polled and counted two devices while the rescan loop waits with
\* a different list to put in place
SnapshotWitness ==
    \E c \in Scrapers :
        /\ cPc[c] = "unlock"
        /\ cCount[c] = 2
        /\ rescanPc = "lock"
        /\ rescanDevices # Devices

(***************************************************************************)
(* C2  Mutual exclusion of replace and collection.  The rescan loop is     *)
(* never between its Lock and its Unlock (where it assigns the inventory)  *)
(* while a Collect pass is between its Lock and its Unlock.                *)
(***************************************************************************)
ReplaceExcludesCollect == ~(Replacing /\ \E c \in Scrapers : InSection(c))

\* the rescan loop is about to assign while a pass waits for the mutex
ReplaceExcludesCollectWitness ==
    /\ rescanPc = "assign"
    /\ rescanDevices # Devices
    /\ \E c \in Scrapers : cPc[c] = "lock"

(***************************************************************************)
(* C3  Uniqueness.  The sequence returned by scanDevices holds no two      *)
(* devices with the same Info_Name.                                        *)
(***************************************************************************)
Uniqueness ==
    Scanned =>
        \A i, j \in 1..Len(discovered) :
            i # j => discovered[i].Info_Name # discovered[j].Info_Name

(***************************************************************************)
(* C4  Dedup precedence.  A name listed by both the base pass and the raid *)
(* pass belongs to exactly one candidate (before filtering), and that one  *)
(* carries a base entry's path and type.                                   *)
(***************************************************************************)
DedupPrecedence ==
    Scanned =>
        LET cand == Candidates(baseDevices, raidDevices)
        IN  \A n \in BaseNames \cap RaidNames :
                /\ Cardinality({i \in 1..Len(cand) : cand[i].Info_Name = n}) = 1
                /\ \A i \in 1..Len(cand) :
                      cand[i].Info_Name = n =>
                          \E k \in 1..Len(baseDevices) :
                              /\ TrimSpace(baseDevices[k].info_name) = n
                              /\ cand[i].Name = baseDevices[k].name
                              /\ cand[i].Type = baseDevices[k].type

(***************************************************************************)
(* C5  Discovery order.  scanDevices returns the retained devices of the   *)
(* base pass in base-pass order, followed by the retained expansions of    *)
(* the raid entries the base pass did not list, in raid-pass order.        *)
(***************************************************************************)
DiscoveryOrder == Scanned => discovered = Kept(BaseBuilt) \o Kept(Expanded(RaidOnly))

\* base [sda, sdb] and raid [sda, sdc], unfiltered, yield [sda, sdb, sdc]
DiscoveryOrderWitness ==
    /\ Scanned
    /\ ~smartctlDeviceExclude.set /\ ~smartctlDeviceInclude.set
    /\ [i \in 1..Len(baseDevices) |-> baseDevices[i].info_name] = <<sda, sdb>>
    /\ [i \in 1..Len(raidDevices) |-> raidDevices[i].info_name] = <<sda, sdc>>
    /\ NamesOf(discovered) = <<sda, sdb, sdc>>
    /\ discovered[1].Type = "scsi"

(***************************************************************************)
(* C6  Filter application.  scanDevices returns exactly the candidates     *)
(* whose Info_Name the device filter does not ignore, in candidate order.  *)
(***************************************************************************)
FilterApplication ==
    Scanned =>
        /\ \A i \in 1..Len(discovered) : ~ignored(TheFilter, discovered[i].Info_Name)
        /\ discovered = Kept(Candidates(baseDevices, raidDevices))

\* exclude ^loop over the candidates [sda, loop0, loop1] yields [sda]
FilterApplicationWitness ==
    /\ Scanned
    /\ smartctlDeviceExclude = Pattern(TRUE, loop)
    /\ NamesOf(Candidates(baseDevices, raidDevices)) = <<sda, loop0, loop1>>
    /\ NamesOf(discovered) = <<sda>>

(***************************************************************************)
(* C7  Allowlist narrowing.  With a non-empty explicit device list, every  *)
(* device filterDevices retains is one of the discovered devices, no more  *)
(* are retained than were discovered, and the Info_Name of each contains   *)
(* an entry of the list.                                                   *)
(***************************************************************************)
AllowlistNarrowing ==
    (mainPc = "new" /\ Len(smartctlDevices) > 0) =>
        /\ Len(devices) <= Len(discovered)
        /\ \A i \in 1..Len(devices) :
              /\ devices[i] \in Range(discovered)
              /\ Allowed(devices[i].Info_Name)

\* the list [sda] against the discovered [sda, sdb] leaves [sda]
AllowlistNarrowingWitness ==
    /\ mainPc = "new"
    /\ smartctlDevices = <<sda>>
    /\ NamesOf(discovered) = <<sda, sdb>>
    /\ NamesOf(devices) = <<sda>>

(***************************************************************************)
(* C8  No rescanning with explicit devices.  With a non-empty explicit     *)
(* device list, the Info_Name of every device of the inventory contains an *)
(* entry of the list, in every state.                                      *)
(***************************************************************************)
ExplicitDevicesStayRestricted ==
    Len(smartctlDevices) > 0 =>
        \A i \in 1..Len(Devices) : Allowed(Devices[i].Info_Name)

(***************************************************************************)
(* C9  Rescan disabled.  With a rescan interval below one second the       *)
(* rescan loop is never started, scanDevices is called once, by main, and  *)
(* the inventory every Collect pass locks and iterates is the one built at *)
(* start-up.                                                               *)
(***************************************************************************)
RescanDisabled ==
    smartctlRescanInterval < Second =>
        /\ rescanPc = "off"
        /\ scans = (IF Scanned THEN 1 ELSE 0)
        /\ mainPc \in {"rescan", "serve"} => Devices = devices
        /\ \A c \in Scrapers :
              /\ InSection(c) => cHeld[c] = devices
              /\ Iterating(c) => cRange[c] = devices

\* with the interval at 999 ms two passes have both worked on the start-up inventory
RescanDisabledWitness ==
    /\ smartctlRescanInterval = 999
    /\ Len(Devices) = 2
    /\ cPc[1] = "unlock" /\ cCount[1] = 2
    /\ cPc[2] = "lock"

(***************************************************************************)
(* C10  Pass isolation.  In a Collect pass every device visited so far has *)
(* one recorded read; the metrics emitted are those of exactly the visited *)
(* devices whose read exists, in order; and the loop ends only after every *)
(* device of the inventory has been read, whatever the reads returned.     *)
(***************************************************************************)
PassIsolation ==
    \A c \in Scrapers :
        /\ Iterating(c) =>
              /\ Len(cReads[c]) = cIdx[c]
              /\ cEmitted[c] = [n \in 1..Len(ReadOk(c)) |-> cRange[c][ReadOk(c)[n]]]
        /\ cPc[c] = "unlock" => Len(cReads[c]) = Len(cHeld[c])

\* the read of sda failed and sdb's metrics were emitted all the same
PassIsolationWitness ==
    \E c \in Scrapers :
        /\ cPc[c] = "unlock"
        /\ NamesOf(cRange[c]) = <<sda, sdb>>
        /\ cReads[c] = <<FALSE, TRUE>>
        /\ NamesOf(cEmitted[c]) = <<sdb>>

(***************************************************************************)
(* Vocabulary of the properties on what a pass did.                        *)
(***************************************************************************)
\* the positions of the log that hold an event of the kind
EventsAt(c, ev) == {i \in 1..Len(cLog[c]) : cLog[c][i].ev = ev}

\* the devices read so far, in the order of the reads
ReadsOf(c) ==
    LET at == SelectSeq([i \in 1..Len(cLog[c]) |-> i], LAMBDA i : cLog[c][i].ev = "read")
    IN  [n \in 1..Len(at) |-> cLog[c][at[n]].device]

(***************************************************************************)
(* C11  Summary count.  A Collect pass sends the device count metric once, *)
(* as the last thing before it unlocks and not before every device of the  *)
(* inventory it iterates has been read; the value is the length of that    *)
(* inventory, whether the reads failed or not and whatever list a waiting  *)
(* rescan holds.                                                           *)
(***************************************************************************)
SummaryCount ==
    \A c \in Scrapers :
        /\ cPc[c] # "unlock" => (cCount[c] = -1 /\ EventsAt(c, "count") = {})
        /\ cPc[c] = "unlock" =>
              /\ EventsAt(c, "count") = {Len(cLog[c])}
              /\ cLog[c][Len(cLog[c])].value = Len(cRange[c])
              /\ cCount[c] = Len(cRange[c])
              /\ Len(cRange[c]) = Len(cHeld[c])
              /\ Cardinality(EventsAt(c, "read")) = Len(cRange[c])

\* two devices counted although the second read failed, while the rescan loop
\* waits with a list of another length
SummaryCountWitness ==
    \E c \in Scrapers :
        /\ cPc[c] = "unlock"
        /\ cReads[c] = <<TRUE, FALSE>>
        /\ cCount[c] = 2
        /\ rescanPc = "lock"
        /\ Len(rescanDevices) = 3

(***************************************************************************)
(* C12  Collection passes serialize.  At most one Collect pass is between  *)
(* its Lock and its Unlock; while one is, every other pass has polled      *)
(* nothing.                                                                *)
(***************************************************************************)
PassesSerialize ==
    \A c, d \in Scrapers :
        (c # d /\ InSection(c)) =>
            /\ ~InSection(d)
            /\ cIdx[d] = 0 /\ cRange[d] = <<>> /\ cLog[d] = <<>>

\* a second scrape waits for the mutex while the first pass is past its first device
PassesSerializeWitness ==
    \E c, d \in Scrapers :
        /\ c # d
        /\ cPc[c] = "loop" /\ cIdx[c] = 1 /\ Len(cRange[c]) = 2
        /\ cPc[d] = "lock"

\* every list a finished scanDevices call of the rescan loop can return
ScanResults ==
    { scanDevices(b, r, smartctlDeviceExclude, smartctlDeviceInclude) :
        b \in HostBaseListings, r \in HostRaidListings }

\* the collector exists
Constructed == mainPc \in {"rescan", "serve"}

(***************************************************************************)
(* C13  Hanging read stalls everything.  Once a pass waits in a read that  *)
(* never returns, it stays there holding the mutex: in every later step    *)
(* the inventory is unchanged, no other pass is inside its section and the *)
(* rescan loop is not past its Lock; the rescan loop's sleep and its       *)
(* scanDevices call can still take place.                                  *)
(***************************************************************************)
HangStalls ==
    /\ [][\A c \in Scrapers :
            cPc[c] = "hung" =>
                /\ cPc'[c] = "hung"
                /\ mutex = ByPass(c) /\ mutex' = ByPass(c)
                /\ Devices' = Devices
                /\ \A d \in Scrapers \ {c} : cPc'[d] \in {"idle", "lock"}
                /\ rescanPc' \in {"off", "sleep", "scan", "lock"}]_vars
    /\ [](\A c \in Scrapers :
            cPc[c] = "hung" =>
                /\ rescanPc = "sleep" => ENABLED RescanSleep
                /\ rescanPc = "scan" => ENABLED RescanScan)

\* a read hangs; another scrape and the rescan loop, with a new list, both wait
HangStallsWitness ==
    \E c, d \in Scrapers :
        /\ cPc[c] = "hung"
        /\ cPc[d] = "lock"
        /\ rescanPc = "lock"
        /\ rescanDevices # Devices

(***************************************************************************)
(* C14  Degraded discovery is adopted.  When the rescan loop has assigned, *)
(* the inventory is the list its scanDevices call returned, whatever that  *)
(* list is: also the empty or partial list of a failed reader, and the     *)
(* previous inventory is not kept.                                         *)
(***************************************************************************)
DegradedAdopted ==
    /\ rescanPc \in {"lock", "assign", "unlock"} => rescanDevices \in ScanResults
    /\ rescanPc = "unlock" => Devices = rescanDevices

\* a rescan whose reader listed nothing has emptied an inventory of three
DegradedAdoptedWitness ==
    /\ rescanPc = "unlock"
    /\ Len(rescanOld) = 3
    /\ Devices = <<>>

(***************************************************************************)
(* C15  Whole-list replacement.  Once the collector exists, a step that    *)
(* changes the inventory is the rescan loop's assignment under the mutex,  *)
(* and it sets the inventory to the complete list a finished scanDevices   *)
(* call returned; the inventory is always the start-up list or such a      *)
(* list.                                                                   *)
(***************************************************************************)
WholeListReplacement ==
    /\ [][(Constructed /\ Devices' # Devices) =>
            /\ rescanPc = "assign" /\ rescanPc' = "unlock"
            /\ mutex = ByRescan
            /\ rescanDevices \in ScanResults
            /\ Devices' = rescanDevices]_vars
    /\ [](Constructed => (Devices = devices \/ Devices \in ScanResults))

\* an inventory of two has been replaced by a list of three
WholeListReplacementWitness ==
    /\ rescanPc = "unlock"
    /\ Len(rescanOld) = 2
    /\ Len(Devices) = 3
    /\ SubSeq(Devices, 1, 2) = rescanOld

(***************************************************************************)
(* C16  Collect leaves the inventory unchanged.  No step of a Collect pass *)
(* changes the inventory, and when a pass unlocks and returns the          *)
(* inventory is the one it found when it took the mutex, whatever its      *)
(* reads returned.                                                         *)
(***************************************************************************)
CollectKeepsInventory ==
    [][/\ (cPc' # cPc \/ cIdx' # cIdx) => Devices' = Devices
       /\ \A c \in Scrapers :
             (cPc[c] = "unlock" /\ cPc'[c] = "idle") =>
                 (Devices = cHeld[c] /\ Devices' = cHeld[c])]_vars

\* both reads of a pass failed and the inventory still holds both devices
CollectKeepsInventoryWitness ==
    \E c \in Scrapers :
        /\ cPc[c] = "unlock"
        /\ cReads[c] = <<FALSE, FALSE>>
        /\ Len(Devices) = 2
        /\ Devices = cHeld[c]

(***************************************************************************)
(* C17  Visit order.  The devices a pass has read so far are the first     *)
(* devices of the inventory, in inventory order, each read once; the       *)
(* metrics of a device come directly after its read, before the next read; *)
(* the count metric comes after every read and every emission, when all    *)
(* devices have been read.                                                 *)
(***************************************************************************)
VisitOrder ==
    \A c \in Scrapers :
        /\ Iterating(c) => ReadsOf(c) = SubSeq(cHeld[c], 1, cIdx[c])
        /\ \A i \in EventsAt(c, "emit") :
              /\ i > 1
              /\ cLog[c][i - 1].ev = "read"
              /\ cLog[c][i - 1].device = cLog[c][i].device
        /\ \A i \in EventsAt(c, "count") :
              /\ \A j \in EventsAt(c, "read") \cup EventsAt(c, "emit") : j < i
              /\ ReadsOf(c) = cHeld[c]

\* sda, sdb and sdc were read in this order, each followed by its metrics,
\* and the count came seventh
VisitOrderWitness ==
    \E c \in Scrapers :
        /\ cPc[c] = "unlock"
        /\ NamesOf(ReadsOf(c)) = <<sda, sdb, sdc>>
        /\ [i \in 1..Len(cLog[c]) |-> cLog[c][i].ev]
             = <<"read", "emit", "read", "emit", "read", "emit", "count">>

(***************************************************************************)
(* C19  Discovery runs outside the lock.  The rescan loop holds the mutex  *)
(* exactly between its Lock and its Unlock, not while it sleeps or scans;  *)
(* a pass that was entered during a scanDevices call of the rescan loop    *)
(* which has not returned can take the mutex, iterate and count, and what  *)
(* it iterates and counts is the inventory from before that call.          *)
(***************************************************************************)
DiscoveryOutsideLock ==
    /\ mutex = ByRescan <=> Replacing
    /\ \A c \in Scrapers :
          cInScan[c] =>
              /\ rescanPc = "scan"
              /\ (cPc[c] = "lock" /\ mutex = Free) => ENABLED CollectLock(c)
              /\ InSection(c) => (mutex = ByPass(c) /\ Devices = cHeld[c])
              /\ Iterating(c) => cRange[c] = Devices
              /\ cPc[c] = "unlock" => cCount[c] = Len(Devices)

\* a pass was entered, took the mutex, read two devices and counted them, all
\* while one scanDevices call of the rescan loop was running
DiscoveryOutsideLockWitness ==
    \E c \in Scrapers :
        /\ cInScan[c]
        /\ rescanPc = "scan"
        /\ cPc[c] = "unlock"
        /\ Len(cReads[c]) = 2
        /\ cCount[c] = 2

(***************************************************************************)
(* C20  Exact allowlist restriction.  With a non-empty explicit device     *)
(* list the devices main keeps are exactly the discovered devices whose    *)
(* Info_Name contains an entry of the list, each once, in discovered       *)
(* order; with an empty list they are the discovered devices; the          *)
(* collector is constructed with that list.                                *)
(***************************************************************************)
ExactRestriction ==
    /\ mainPc \in {"new", "rescan"} =>
          devices = IF Len(smartctlDevices) > 0
                    THEN SelectSeq(discovered, LAMBDA d : Allowed(d.Info_Name))
                    ELSE discovered
    /\ mainPc = "rescan" => Devices = devices

\* sda contains both entries of the list [sd, sda] and is kept once
ExactRestrictionWitness ==
    /\ mainPc = "rescan"
    /\ smartctlDevices = <<sd, sda>>
    /\ NamesOf(discovered) = <<sda, loop0>>
    /\ NamesOf(Devices) = <<sda>>

(***************************************************************************)
(* C18  Progress when reads return.  When every readData call and every    *)
(* scanDevices call returns and scheduling is fair, a Collect pass that    *)
(* has been entered returns, with the mutex released by it; a rescan loop  *)
(* whose sleep has ended performs its assignment; and the mutex is free    *)
(* whenever no pass is between Lock and Unlock and the rescan loop is not  *)
(* between Lock and Unlock.                                                *)
(***************************************************************************)
Progress ==
    /\ \A c \in Scrapers : (cPc[c] = "lock") ~> (cPc[c] = "unlock" /\ mutex = ByPass(c))
    /\ \A c \in Scrapers : (cPc[c] = "unlock") ~> (cPc[c] = "idle")
    /\ [][\A c \in Scrapers :
             (cPc[c] = "unlock" /\ cPc'[c] = "idle") => mutex' = Free]_vars
    /\ (rescanPc = "scan") ~> (rescanPc = "unlock" /\ Devices = rescanDevices)
    /\ []((~Replacing /\ \A c \in Scrapers : ~InSection(c)) => mutex = Free)

\* one pass iterates while the other pass and the rescan loop both wait in Lock
ProgressWitness ==
    \E c, d \in Scrapers :
        /\ cPc[c] = "loop"
        /\ cIdx[c] = 1
        /\ cPc[d] = "lock"
        /\ rescanPc = "lock"
        /\ mutex = ByPass(c)

====
